---- MODULE Spec2Model ----
(***************************************************************************)
(* EncodingManager (src/src/encoding/manager.py): a registry of encoder    *)
(* strategies, and a manager that sequences a missing-value handler, an    *)
(* encoder strategy and a profiler through fit / transform /               *)
(* fit_transform, and saves / loads the fitted pair.                       *)
(*                                                                         *)
(* Strings the program inspects (scheme names, class names) are sequences  *)
(* of one-character strings, so that str.lower() is computed.  A frame is  *)
(* a one-column table: a sequence of cells.  A label series is a sequence  *)
(* of 0/1.  A numeric frame is a sequence of integers.                     *)
(***************************************************************************)
EXTENDS Integers, Sequences, FiniteSets

\* ------------------------------------------------------------------ bounds
\* Largest number of rows of an input frame.
MaxRows == 1

\* ------------------------------------------------------- program constants
VERSION_HEADER == 1

\* Names of the encoder classes imported by the manager (type.__name__).
WOEGuard == <<"W","O","E","G","u","a","r","d">>
TargetEncoder == <<"T","a","r","g","e","t","E","n","c","o","d","e","r">>
LeaveOneOutEncoder ==
    <<"L","e","a","v","e","O","n","e","O","u","t","E","n","c","o","d","e","r">>
OneHotEncoder == <<"O","n","e","H","o","t","E","n","c","o","d","e","r">>

\* Keys of the built-in registry.
woe == <<"w","o","e">>
target == <<"t","a","r","g","e","t">>
leave_one_out == <<"l","e","a","v","e","_","o","n","e","_","o","u","t">>
onehot == <<"o","n","e","h","o","t">>

BuiltinNames == {woe, target, leave_one_out, onehot}

\* EncodingManager._registry as the class body defines it.
BuiltinRegistry ==
    [n \in BuiltinNames |->
        IF n = woe THEN WOEGuard
        ELSE IF n = target THEN TargetEncoder
        ELSE IF n = leave_one_out THEN LeaveOneOutEncoder
        ELSE OneHotEncoder]

\* ------------------------------------------------------------- str.lower()
UpperChars == <<"A","B","C","D","E","F","G","H","I","J","K","L","M",
                "N","O","P","Q","R","S","T","U","V","W","X","Y","Z">>
LowerChars == <<"a","b","c","d","e","f","g","h","i","j","k","l","m",
                "n","o","p","q","r","s","t","u","v","w","x","y","z">>

LowerChar(c) ==
    IF \E i \in 1..26 : UpperChars[i] = c
    THEN LowerChars[CHOOSE i \in 1..26 : UpperChars[i] = c]
    ELSE c

Lower(s) == [i \in 1..Len(s) |-> LowerChar(s[i])]

\* ---------------------------------------------------------------- inputs
None == "None"
NaN == "nan"

\* Cell values of the categorical column; None is a missing value.
Cells == {"a", None}

Frames == UNION {[1..n -> Cells] : n \in 1..MaxRows}

Labels(n) == [1..n -> {0, 1}]

\* Values given as missing_sentinel.
Sentinels == {NaN, "UNK"}

\* An encoder class name lower-cased, which is no built-in key.
woeguard == Lower(WOEGuard)

\* A name nobody registers.
ordinal == <<"o","r","d","i","n","a","l">>

\* Scheme names callers construct with.
SchemeNames == BuiltinNames \cup {woeguard, ordinal}

\* Arguments of register.
RegNames == {woeguard}
RegClasses == {WOEGuard, TargetEncoder}

\* The variable of the caller that holds the manager.
Mgrs == {"m1"}

Paths == {"p"}

\* Which collaborator raises during a fit, if any.
Faults == {"none", "handler", "strategy"}

\* --------------------------------------------------------------- events
\* One call of a collaborator, as a test double records it.
Ev(fn, tag, arg, y, ret, out, raised) ==
    [fn |-> fn, tag |-> tag, arg |-> arg, y |-> y, ret |-> ret,
     out |-> out, raised |-> raised]

OK == "ok"
ValueError == "ValueError"
NotFittedError == "NotFittedError"
CollaboratorError == "CollaboratorError"

\* -------------------------------------------------- MissingHandler (spec)
NewHandler(sentinel) == [sentinel |-> sentinel, fitted |-> FALSE]

\* The prepared frame: missing cells replaced by the sentinel.
Prepare(h, X) == [i \in 1..Len(X) |-> IF X[i] = None THEN h.sentinel ELSE X[i]]

HandlerFitTransform(h, X, raises) ==
    IF raises
    THEN [obj |-> h, raised |-> CollaboratorError, ret |-> <<>>,
          ev |-> Ev("handler.fit_transform", "", X, <<>>, <<>>, <<>>,
                    CollaboratorError)]
    ELSE [obj |-> [h EXCEPT !.fitted = TRUE], raised |-> OK,
          ret |-> Prepare(h, X),
          ev |-> Ev("handler.fit_transform", "", X, <<>>, Prepare(h, X), <<>>, OK)]

HandlerTransform(h, X) ==
    IF ~h.fitted
    THEN [obj |-> h, raised |-> NotFittedError, ret |-> <<>>,
          ev |-> Ev("handler.transform", "", X, <<>>, <<>>, <<>>, NotFittedError)]
    ELSE [obj |-> h, raised |-> OK, ret |-> Prepare(h, X),
          ev |-> Ev("handler.transform", "", X, <<>>, Prepare(h, X), <<>>, OK)]

\* ------------------------------------------------ Encoder strategy (spec)
NewEncoder(cls) == [cls |-> cls, fitted |-> FALSE, mapping |-> <<>>]

Range(s) == {s[i] : i \in 1..Len(s)}

\* The learned category -> number mapping: positives per category.
Learn(Xp, y) ==
    [c \in Range(Xp) |->
        Cardinality({i \in 1..Len(Xp) : Xp[i] = c /\ y[i] = 1})]

Encode(enc, c) == IF c \in DOMAIN enc.mapping THEN enc.mapping[c] ELSE -1

StrategyFit(enc, Xp, y, raises) ==
    IF raises
    THEN [obj |-> enc, raised |-> CollaboratorError,
          ev |-> Ev("strategy.fit", "", Xp, y, <<>>, <<>>, CollaboratorError)]
    ELSE [obj |-> [enc EXCEPT !.fitted = TRUE, !.mapping = Learn(Xp, y)],
          raised |-> OK,
          ev |-> Ev("strategy.fit", "", Xp, y, <<>>, <<>>, OK)]

StrategyTransform(enc, Xp) ==
    IF ~enc.fitted
    THEN [obj |-> enc, raised |-> NotFittedError, out |-> <<>>,
          ev |-> Ev("strategy.transform", "", Xp, <<>>, <<>>, <<>>, NotFittedError)]
    ELSE LET o == [i \in 1..Len(Xp) |-> Encode(enc, Xp[i])]
         IN [obj |-> enc, raised |-> OK, out |-> o,
             ev |-> Ev("strategy.transform", "", Xp, <<>>, <<>>, o, OK)]

\* ---------------------------------------------------- MemoryManager (spec)
\* The profiler's state is the stack of the scopes it has open.
NewProfiler == <<>>
ProfileEnter(mm, tag) == Append(mm, tag)
ProfileExit(mm) == SubSeq(mm, 1, Len(mm) - 1)
EnterEv(tag) == Ev("profile.enter", tag, <<>>, <<>>, <<>>, <<>>, OK)
ExitEv(tag) == Ev("profile.exit", tag, <<>>, <<>>, <<>>, <<>>, OK)

\* ------------------------------------------------------ EncodingManager
NoMgr == [live |-> FALSE]

NewEv(what, cls) == Ev(what, "", cls, <<>>, <<>>, <<>>, OK)

\* Init__ with the handler and the profiler built before the lookup.
Init__EagerParts(reg, encoding, sentinel) ==
    IF encoding \notin DOMAIN reg
    THEN [mgr |-> NoMgr, outcome |-> ValueError,
          calls |-> <<NewEv("new.MemoryManager", <<>>),
                      NewEv("new.MissingHandler", <<>>)>>]
    ELSE [mgr |-> [live |-> TRUE,
                   encoder_cls |-> reg[encoding],
                   encoder |-> NewEncoder(reg[encoding]),
                   memory_manager |-> NewProfiler,
                   missing_handler |-> NewHandler(sentinel)],
          outcome |-> OK,
          calls |-> <<NewEv("new.MemoryManager", <<>>),
                      NewEv("new.MissingHandler", <<>>),
                      NewEv("new.encoder", reg[encoding])>>]

\* __init__(encoding, missing_sentinel=sentinel) against registry reg.
Init__(reg, encoding, sentinel) ==
    IF encoding \notin DOMAIN reg
    THEN [mgr |-> NoMgr, outcome |-> ValueError, calls |-> <<>>]
    ELSE [mgr |-> [live |-> TRUE,
                   encoder_cls |-> reg[encoding],
                   encoder |-> NewEncoder(reg[encoding]),
                   memory_manager |-> NewProfiler,
                   missing_handler |-> NewHandler(sentinel)],
          outcome |-> OK,
          calls |-> <<NewEv("new.encoder", reg[encoding]),
                      NewEv("new.MemoryManager", <<>>),
                      NewEv("new.MissingHandler", <<>>)>>]

\* register as dict.setdefault: a name already registered keeps its type.
RegisterCallKeepFirst(reg, name, cls) ==
    [n \in DOMAIN reg \cup {name} |->
        IF n \in DOMAIN reg THEN reg[n] ELSE cls]

\* register(name, encoder_cls)
RegisterCall(reg, name, cls) ==
    [n \in DOMAIN reg \cup {name} |-> IF n = name THEN cls ELSE reg[n]]

\* fit with the strategy fitted on the raw frame X.
FitCallRawFrame(mg, X, y, fault) ==
    LET h == HandlerFitTransform(mg.missing_handler, X, fault = "handler")
    IN IF h.raised # OK
       THEN [mgr |-> [mg EXCEPT !.missing_handler = h.obj],
             outcome |-> h.raised, out |-> <<>>, calls |-> <<h.ev>>]
       ELSE LET mm1 == ProfileEnter(mg.memory_manager, "fit")
                s == StrategyFit(mg.encoder, X, y, fault = "strategy")
                mm2 == ProfileExit(mm1)
            IN [mgr |-> [mg EXCEPT !.missing_handler = h.obj,
                                   !.encoder = s.obj,
                                   !.memory_manager = mm2],
                outcome |-> s.raised, out |-> <<>>,
                calls |-> <<h.ev, EnterEv("fit"), s.ev, ExitEv("fit")>>]

\* fit with the scope closed on the success path only.
FitCallLeakyScope(mg, X, y, fault) ==
    LET h == HandlerFitTransform(mg.missing_handler, X, fault = "handler")
    IN IF h.raised # OK
       THEN [mgr |-> [mg EXCEPT !.missing_handler = h.obj],
             outcome |-> h.raised, out |-> <<>>, calls |-> <<h.ev>>]
       ELSE LET mm1 == ProfileEnter(mg.memory_manager, "fit")
                s == StrategyFit(mg.encoder, h.ret, y, fault = "strategy")
                mm2 == IF s.raised = OK THEN ProfileExit(mm1) ELSE mm1
            IN [mgr |-> [mg EXCEPT !.missing_handler = h.obj,
                                   !.encoder = s.obj,
                                   !.memory_manager = mm2],
                outcome |-> s.raised, out |-> <<>>,
                calls |-> IF s.raised = OK
                          THEN <<h.ev, EnterEv("fit"), s.ev, ExitEv("fit")>>
                          ELSE <<h.ev, EnterEv("fit"), s.ev>>]

\* fit that puts the handler back when the strategy raises.
FitCallRollback(mg, X, y, fault) ==
    LET h == HandlerFitTransform(mg.missing_handler, X, fault = "handler")
    IN IF h.raised # OK
       THEN [mgr |-> [mg EXCEPT !.missing_handler = h.obj],
             outcome |-> h.raised, out |-> <<>>, calls |-> <<h.ev>>]
       ELSE LET mm1 == ProfileEnter(mg.memory_manager, "fit")
                s == StrategyFit(mg.encoder, h.ret, y, fault = "strategy")
                mm2 == ProfileExit(mm1)
            IN [mgr |-> [mg EXCEPT !.missing_handler =
                                       IF s.raised = OK THEN h.obj ELSE @,
                                   !.encoder = s.obj,
                                   !.memory_manager = mm2],
                outcome |-> s.raised, out |-> <<>>,
                calls |-> <<h.ev, EnterEv("fit"), s.ev, ExitEv("fit")>>]

\* fit(X, y); fault names the collaborator that raises.
FitCall(mg, X, y, fault) ==
    LET h == HandlerFitTransform(mg.missing_handler, X, fault = "handler")
    IN IF h.raised # OK
       THEN [mgr |-> [mg EXCEPT !.missing_handler = h.obj],
             outcome |-> h.raised, out |-> <<>>, calls |-> <<h.ev>>]
       ELSE LET mm1 == ProfileEnter(mg.memory_manager, "fit")
                s == StrategyFit(mg.encoder, h.ret, y, fault = "strategy")
                mm2 == ProfileExit(mm1)
            IN [mgr |-> [mg EXCEPT !.missing_handler = h.obj,
                                   !.encoder = s.obj,
                                   !.memory_manager = mm2],
                outcome |-> s.raised, out |-> <<>>,
                calls |-> <<h.ev, EnterEv("fit"), s.ev, ExitEv("fit")>>]

\* transform that encodes the raw frame when the handler is not fitted.
TransformCallLenient(mg, X) ==
    LET h == HandlerTransform(mg.missing_handler, X)
        Xp == IF h.raised = OK THEN h.ret ELSE X
        mm1 == ProfileEnter(mg.memory_manager, "transform")
        o == [i \in 1..Len(Xp) |-> Encode(mg.encoder, Xp[i])]
        mm2 == ProfileExit(mm1)
    IN [mgr |-> [mg EXCEPT !.memory_manager = mm2],
        outcome |-> OK, out |-> o,
        calls |-> <<h.ev, EnterEv("transform"),
                    Ev("strategy.transform", "", Xp, <<>>, <<>>, o, OK),
                    ExitEv("transform")>>]

\* transform that rebuilds the encoder from encoder_cls after use.
TransformCallResets(mg, X) ==
    LET h == HandlerTransform(mg.missing_handler, X)
    IN IF h.raised # OK
       THEN [mgr |-> [mg EXCEPT !.missing_handler = h.obj],
             outcome |-> h.raised, out |-> <<>>, calls |-> <<h.ev>>]
       ELSE LET mm1 == ProfileEnter(mg.memory_manager, "transform")
                s == StrategyTransform(mg.encoder, h.ret)
                mm2 == ProfileExit(mm1)
            IN [mgr |-> [mg EXCEPT !.missing_handler = h.obj,
                                   !.encoder = NewEncoder(mg.encoder_cls),
                                   !.memory_manager = mm2],
                outcome |-> s.raised, out |-> s.out,
                calls |-> <<h.ev, EnterEv("transform"), s.ev,
                            ExitEv("transform")>>]

\* transform(X)
TransformCall(mg, X) ==
    LET h == HandlerTransform(mg.missing_handler, X)
    IN IF h.raised # OK
       THEN [mgr |-> [mg EXCEPT !.missing_handler = h.obj],
             outcome |-> h.raised, out |-> <<>>, calls |-> <<h.ev>>]
       ELSE LET mm1 == ProfileEnter(mg.memory_manager, "transform")
                s == StrategyTransform(mg.encoder, h.ret)
                mm2 == ProfileExit(mm1)
            IN [mgr |-> [mg EXCEPT !.missing_handler = h.obj,
                                   !.encoder = s.obj,
                                   !.memory_manager = mm2],
                outcome |-> s.raised, out |-> s.out,
                calls |-> <<h.ev, EnterEv("transform"), s.ev,
                            ExitEv("transform")>>]

\* fit_transform as one pass: the strategy encodes the frame fit prepared.
FitTransformCallFused(mg, X, y, fault) ==
    LET f == FitCall(mg, X, y, fault)
    IN IF f.outcome # OK
       THEN f
       ELSE LET mm1 == ProfileEnter(f.mgr.memory_manager, "transform")
                s == StrategyTransform(f.mgr.encoder, f.calls[1].ret)
                mm2 == ProfileExit(mm1)
            IN [mgr |-> [f.mgr EXCEPT !.encoder = s.obj, !.memory_manager = mm2],
                outcome |-> s.raised, out |-> s.out,
                calls |-> f.calls \o <<EnterEv("transform"), s.ev,
                                       ExitEv("transform")>>]

\* fit_transform(X, y)
FitTransformCall(mg, X, y, fault) ==
    LET f == FitCall(mg, X, y, fault)
    IN IF f.outcome # OK
       THEN f
       ELSE LET t == TransformCall(f.mgr, X)
            IN [mgr |-> t.mgr, outcome |-> t.outcome, out |-> t.out,
                calls |-> f.calls \o t.calls]

\* save(path): the payload written.
SaveCall(mg) ==
    [version |-> VERSION_HEADER,
     encoder |-> mg.encoder,
     missing_handler |-> mg.missing_handler]

\* load(path): the manager built from a decoded payload.  The default of
\* payload.get("missing_handler", MissingHandler()) is built before the
\* lookup, on every load, and before cls(...) runs.
LoadCall(reg, payload) ==
    LET version == IF "version" \in DOMAIN payload THEN payload.version ELSE 0
        enc == payload.encoder
        dflt == NewHandler(NaN)
        mh == IF "missing_handler" \in DOMAIN payload
              THEN payload.missing_handler
              ELSE dflt
        c == Init__(reg, Lower(enc.cls), NaN)
        calls == <<NewEv("new.MissingHandler", <<>>)>> \o c.calls
    IN IF c.outcome # OK
       THEN [mgr |-> NoMgr, outcome |-> c.outcome, calls |-> calls]
       ELSE [mgr |-> [c.mgr EXCEPT !.encoder = enc, !.missing_handler = mh],
             outcome |-> OK, calls |-> calls]

\* ---------------------------------------------------------------- state
VARIABLES
    registry,   \* EncodingManager._registry
    mgr,        \* the manager each caller variable holds, or NoMgr
    files,      \* path -> payload, for the paths written
    last        \* the last call: what was called, and what came back

vars == <<registry, mgr, files, last>>

Call(op, m, name, X, y, outcome, out, calls) ==
    [op |-> op, m |-> m, name |-> name, X |-> X, y |-> y,
     outcome |-> outcome, out |-> out, calls |-> calls]

Init ==
    /\ registry = BuiltinRegistry
    /\ mgr = [m \in Mgrs |-> NoMgr]
    /\ files = <<>>
    /\ last = Call("none", "", <<>>, <<>>, <<>>, OK, <<>>, <<>>)

\* m = EncodingManager(name, missing_sentinel=sentinel)
Construct(m, name, sentinel) ==
    LET c == Init__(registry, name, sentinel)
    IN /\ mgr' = IF c.outcome = OK THEN [mgr EXCEPT ![m] = c.mgr] ELSE mgr
       /\ last' = Call("init", m, name, <<>>, <<>>, c.outcome, <<>>, c.calls)
       /\ UNCHANGED <<registry, files>>

\* EncodingManager.register(name, cls)
Register(name, cls) ==
    /\ registry' = RegisterCall(registry, name, cls)
    /\ last' = Call("register", "", name, <<>>, <<>>, OK, <<>>, <<>>)
    /\ UNCHANGED <<mgr, files>>

\* m.fit(X, y)
Fit(m, X, y, fault) ==
    /\ mgr[m].live
    /\ LET r == FitCall(mgr[m], X, y, fault)
       IN /\ mgr' = [mgr EXCEPT ![m] = r.mgr]
          /\ last' = Call("fit", m, <<>>, X, y, r.outcome, r.out, r.calls)
    /\ UNCHANGED <<registry, files>>

\* m.transform(X)
Transform(m, X) ==
    /\ mgr[m].live
    /\ LET r == TransformCall(mgr[m], X)
       IN /\ mgr' = [mgr EXCEPT ![m] = r.mgr]
          /\ last' = Call("transform", m, <<>>, X, <<>>, r.outcome, r.out, r.calls)
    /\ UNCHANGED <<registry, files>>

\* m.fit_transform(X, y)
FitTransform(m, X, y, fault) ==
    /\ mgr[m].live
    /\ LET r == FitTransformCall(mgr[m], X, y, fault)
       IN /\ mgr' = [mgr EXCEPT ![m] = r.mgr]
          /\ last' = Call("fit_transform", m, <<>>, X, y, r.outcome, r.out, r.calls)
    /\ UNCHANGED <<registry, files>>

\* m.save(p)
Save(m, p) ==
    /\ mgr[m].live
    /\ files' = [q \in DOMAIN files \cup {p} |->
                    IF q = p THEN SaveCall(mgr[m]) ELSE files[q]]
    /\ last' = Call("save", m, <<>>, <<>>, <<>>, OK, <<>>, <<>>)
    /\ UNCHANGED <<registry, mgr>>

\* m = EncodingManager.load(p)
Load(m, p) ==
    /\ p \in DOMAIN files
    /\ LET r == LoadCall(registry, files[p])
       IN /\ mgr' = IF r.outcome = OK THEN [mgr EXCEPT ![m] = r.mgr] ELSE mgr
          /\ last' = Call("load", m, <<>>, <<>>, <<>>, r.outcome, <<>>, r.calls)
    /\ UNCHANGED <<registry, files>>

\* Training data and frames of the persistence scenarios.
Samples ==
    {[X |-> <<"a", None>>, y |-> <<1, 0>>],
     [X |-> <<"a", "a">>, y |-> <<0, 1>>]}

SampleFrames == {d.X : d \in Samples} \cup {<<None>>}

\* The whole program: registry, managers and files, on the sample data.
Next ==
    \/ \E m \in Mgrs, name \in SchemeNames, s \in Sentinels : Construct(m, name, s)
    \/ \E name \in RegNames, cls \in RegClasses : Register(name, cls)
    \/ \E m \in Mgrs, d \in Samples, f \in Faults : Fit(m, d.X, d.y, f)
    \/ \E m \in Mgrs, X \in SampleFrames : Transform(m, X)
    \/ \E m \in Mgrs, d \in Samples, f \in Faults : FitTransform(m, d.X, d.y, f)
    \/ \E m \in Mgrs, p \in Paths : Save(m, p)
    \/ \E m \in Mgrs, p \in Paths : Load(m, p)

Spec == Init /\ [][Next]_vars

\* One manager's fit / transform life, on every frame of up to MaxRows rows.
NextFit ==
    \/ \E name \in SchemeNames, s \in Sentinels : Construct("m1", name, s)
    \/ \E X \in Frames, f \in Faults :
          \E y \in Labels(Len(X)) : Fit("m1", X, y, f)
    \/ \E X \in Frames : Transform("m1", X)
    \/ \E X \in Frames, f \in Faults :
          \E y \in Labels(Len(X)) : FitTransform("m1", X, y, f)

SpecFit == Init /\ [][NextFit]_vars

\* ---------------------------------------------------------------- claims
IsHandlerEv(e) == e.fn \in {"handler.fit_transform", "handler.transform"}
IsStrategyEv(e) == e.fn \in {"strategy.fit", "strategy.transform"}
IsCollabEv(e) == IsHandlerEv(e) \/ IsStrategyEv(e)
IsEnter(e) == e.fn = "profile.enter"
IsExit(e) == e.fn = "profile.exit"
IsNew(e) == e.fn \in {"new.encoder", "new.MemoryManager", "new.MissingHandler"}

FnsOf(calls) == [i \in 1..Len(calls) |-> calls[i].fn]

\* The handler call a strategy call is paired with.
HandlerOf(fn) ==
    IF fn = "strategy.fit" THEN "handler.fit_transform" ELSE "handler.transform"

\* The strategy call a scope of this tag wraps.
StrategyOf(tag) == IF tag = "fit" THEN "strategy.fit" ELSE "strategy.transform"

\* The manager the payload of path p would restore.
SavedManager(p) ==
    [live |-> TRUE, encoder_cls |-> files[p].encoder.cls,
     encoder |-> files[p].encoder, memory_manager |-> NewProfiler,
     missing_handler |-> files[p].missing_handler]

\* C1: with the built-in registry, loading the file a fitted manager saved
\* succeeds, the loaded manager holds the saved encoder and the saved
\* handler, and its transform output equals the saved manager's on every X.
C1_RoundTrip ==
    \A p \in DOMAIN files :
        (/\ last.op = "load"
         /\ registry = BuiltinRegistry
         /\ files[p].encoder.fitted
         /\ files[p].missing_handler.fitted)
        => /\ last.outcome = OK
           /\ mgr[last.m].live
           /\ mgr[last.m].encoder = files[p].encoder
           /\ mgr[last.m].missing_handler = files[p].missing_handler
           /\ \A X \in SampleFrames :
                 TransformCall(mgr[last.m], X).out
                    = TransformCall(SavedManager(p), X).out

\* C2: constructing with a name that is no key of the registry fails with
\* ValueError before anything is instantiated, binds no manager and leaves
\* the registry as it was.  So does the construction inside load, when the
\* lower-cased type name of the decoded strategy is no key: the one object
\* built during that load is the default handler load itself builds before
\* it calls the constructor.
C2_UnregisteredNameFails ==
    [][/\ \A m \in Mgrs, name \in SchemeNames, s \in Sentinels :
             (/\ last'.op = "init" /\ last'.name = name
              /\ name \notin DOMAIN registry
              /\ Construct(m, name, s))
             => /\ last'.outcome = ValueError
                /\ last'.calls = <<>>
                /\ mgr' = mgr
                /\ registry' = registry
       /\ \A m \in Mgrs, p \in DOMAIN files :
             (/\ last'.op = "load"
              /\ Lower(files[p].encoder.cls) \notin DOMAIN registry
              /\ Load(m, p))
             => /\ last'.outcome = ValueError
                /\ last'.calls = <<NewEv("new.MissingHandler", <<>>)>>
                /\ mgr' = mgr
                /\ registry' = registry]_vars

C2_Witness ==
    /\ last.op = "init"
    /\ last.name \notin DOMAIN registry
    /\ last.outcome = ValueError

\* C3: in every call, each strategy call comes after a handler call of the
\* same call that returned, the handler was given the caller's X, and the
\* strategy is given exactly what that handler call returned, in which no
\* cell is missing.
C3_PrepareBeforeEncode ==
    \A i \in 1..Len(last.calls) :
        IsStrategyEv(last.calls[i])
        => /\ i > 1
           /\ \E j \in 1..(i - 1) :
                 /\ last.calls[j].fn = HandlerOf(last.calls[i].fn)
                 /\ last.calls[j].raised = OK
                 /\ last.calls[j].arg = last.X
                 /\ last.calls[j].ret = last.calls[i].arg
                 /\ \A k \in (j + 1)..(i - 1) : ~IsCollabEv(last.calls[k])
           /\ None \notin Range(last.calls[i].arg)

C3_Witness ==
    /\ last.op \in {"fit", "fit_transform"}
    /\ None \in Range(last.X)
    /\ \E i \in 1..Len(last.calls) :
          /\ last.calls[i].fn = "strategy.fit"
          /\ last.calls[i].arg # last.X

\* C4: when no collaborator raises during the fit, fit_transform(X, y) makes
\* the collaborator calls of fit(X, y), which succeeds, followed by those of
\* transform(X) on the original X, leaves the manager as fit then transform
\* leave it, and returns what transform returns.
C4_FitTransformIsFitThenTransform ==
    [][(last'.op = "fit_transform"
        /\ FitTransform("m1", last'.X, last'.y, "none"))
       => LET X == last'.X
              a == FitCall(mgr["m1"], X, last'.y, "none")
              b == TransformCall(a.mgr, X)
          IN /\ a.outcome = OK
             /\ mgr'["m1"] = b.mgr
             /\ last'.outcome = b.outcome
             /\ last'.out = b.out
             /\ last'.calls = a.calls \o b.calls
             /\ FnsOf(SelectSeq(last'.calls, IsCollabEv))
                   = <<"handler.fit_transform", "strategy.fit",
                       "handler.transform", "strategy.transform">>
             /\ SelectSeq(last'.calls, IsHandlerEv)[2].arg = X]_vars

C4_Witness ==
    /\ last.op = "fit_transform"
    /\ last.outcome = OK
    /\ None \in Range(last.X)
    /\ Len(last.out) = Len(last.X)

\* C5: register sets the name to the given type, removes nothing, changes no
\* other entry and no manager; no step removes a registry entry; a manager
\* constructed with a registered name resolves to the type registered then.
C5_RegistrationGlobalAdditive ==
    [][/\ \A name \in RegNames, cls \in RegClasses :
             (last'.op = "register" /\ Register(name, cls))
             => /\ registry'[name] = cls
                /\ \A n \in DOMAIN registry \ {name} :
                      n \in DOMAIN registry' /\ registry'[n] = registry[n]
                /\ mgr' = mgr
       /\ \A m \in Mgrs, name \in SchemeNames, s \in Sentinels :
             (/\ last'.op = "init" /\ last'.name = name
              /\ name \in DOMAIN registry
              /\ Construct(m, name, s))
             => /\ last'.outcome = OK
                /\ mgr'[m].encoder_cls = registry[name]
                /\ mgr'[m].encoder = NewEncoder(registry[name])
       /\ DOMAIN registry \subseteq DOMAIN registry']_vars

\* A WOEGuard manager lives on while woeguard is registered to TargetEncoder.
C5_Witness ==
    /\ last.op = "register"
    /\ mgr["m1"].live
    /\ mgr["m1"].encoder_cls = WOEGuard
    /\ mgr["m1"].encoder.cls = WOEGuard
    /\ registry[woeguard] = TargetEncoder

\* C6: transform on a manager whose strategy was never fitted, constructed by
\* name or loaded from the payload of an unfit manager, fails with the
\* NotFittedError its collaborator raised and returns no frame.
C6_TransformBeforeFitFails ==
    (last.op = "transform" /\ ~mgr[last.m].encoder.fitted)
    => /\ last.outcome = NotFittedError
       /\ last.out = <<>>
       /\ LET c == SelectSeq(last.calls, IsCollabEv)
          IN c # <<>> /\ c[Len(c)].raised = NotFittedError

\* Only load installs an encoder of another type than encoder_cls: the unfit
\* manager transform failed on was loaded.
C6_Witness ==
    /\ last.op = "transform"
    /\ last.outcome = NotFittedError
    /\ ~mgr[last.m].encoder.fitted
    /\ ~mgr[last.m].missing_handler.fitted
    /\ mgr[last.m].encoder.cls # mgr[last.m].encoder_cls

\* C7: transform on a fitted manager succeeds and changes neither the
\* manager, the registry nor the files, so that transform of the same X
\* again returns the same frame; save changes no manager either.
C7_TransformChangesNothing ==
    [][/\ \A m \in Mgrs, X \in SampleFrames :
             (/\ last'.op = "transform" /\ last'.X = X
              /\ Transform(m, X)
              /\ mgr[m].encoder.fitted
              /\ mgr[m].missing_handler.fitted)
             => /\ mgr' = mgr
                /\ registry' = registry
                /\ files' = files
                /\ last'.outcome = OK
                /\ TransformCall(mgr'[m], X).out = last'.out
                /\ (last.op = "transform" /\ last.m = m /\ last.X = X)
                      => last'.out = last.out
       /\ \A m \in Mgrs, p \in Paths :
             (last'.op = "save" /\ Save(m, p)) => mgr' = mgr]_vars

C7_Witness ==
    /\ last.op = "transform"
    /\ last.outcome = OK
    /\ None \in Range(last.X)
    /\ DOMAIN files # {}

\* The scopes opened with this tag during the last call.
Opened(tag) ==
    Len(SelectSeq(last.calls, LAMBDA e : IsEnter(e) /\ e.tag = tag))

\* C8 as stated: every fit call opens exactly one scope tagged "fit" and
\* every transform call exactly one tagged "transform".
C8_EveryCallOpensOneScope ==
    /\ last.op = "fit" => Opened("fit") = 1
    /\ last.op = "transform" => Opened("transform") = 1

\* C8 amended: a fit or transform call whose handler step returns opens
\* exactly one scope, tagged with the call, and a call whose handler step
\* raises opens none; a scope is opened right after the handler returned,
\* wraps the one strategy call and is closed right after it, also when the
\* strategy raises; no manager keeps a scope open after a call.
C8_ScopesReleased ==
    /\ \A m \in Mgrs : mgr[m].live => mgr[m].memory_manager = <<>>
    /\ \A i \in 1..Len(last.calls) :
          IsEnter(last.calls[i])
          => /\ i > 1 /\ i + 2 <= Len(last.calls)
             /\ IsHandlerEv(last.calls[i - 1])
             /\ last.calls[i - 1].raised = OK
             /\ last.calls[i + 1].fn = StrategyOf(last.calls[i].tag)
             /\ IsExit(last.calls[i + 2])
             /\ last.calls[i + 2].tag = last.calls[i].tag
    /\ \A i \in 1..Len(last.calls) :
          IsExit(last.calls[i]) => i > 2 /\ IsEnter(last.calls[i - 2])
    /\ \A i \in 1..Len(last.calls) :
          IsStrategyEv(last.calls[i]) => i > 1 /\ IsEnter(last.calls[i - 1])
    /\ last.op \in {"fit", "transform"}
       => /\ Opened(last.op) =
                IF last.calls[1].raised = OK THEN 1 ELSE 0
          /\ Opened(IF last.op = "fit" THEN "transform" ELSE "fit") = 0

\* A strategy call raised inside its scope, and the scope was closed.
C8_Witness ==
    /\ last.op = "fit"
    /\ last.outcome = CollaboratorError
    /\ Len(last.calls) = 4
    /\ last.calls[3].raised = CollaboratorError
    /\ IsExit(last.calls[4])
    /\ mgr[last.m].memory_manager = <<>>

\* C9: in fit and fit_transform the outcome of the call is what the last
\* collaborator called raised or returned.  When the handler's fit_transform
\* raises, no other collaborator is called, nothing is returned and the
\* strategy is as it was; when the strategy's fit raises, no transform is
\* called, nothing is returned, the handler is fitted and the strategy is as
\* it was, so not fitted if it was not.
C9_FailFastNoRollback ==
    [][last'.op \in {"fit", "fit_transform"}
       => LET c == SelectSeq(last'.calls, IsCollabEv)
              m == last'.m
          IN /\ c # <<>>
             /\ c[1].fn = "handler.fit_transform"
             /\ last'.outcome = c[Len(c)].raised
             /\ \A i \in 1..(Len(c) - 1) : c[i].raised = OK
             /\ c[1].raised # OK
                => /\ Len(c) = 1
                   /\ last'.out = <<>>
                   /\ mgr'[m].encoder = mgr[m].encoder
             /\ c[1].raised = OK
                => /\ Len(c) >= 2
                   /\ c[2].fn = "strategy.fit"
                   /\ mgr'[m].missing_handler.fitted
                   /\ c[2].raised # OK
                      => /\ Len(c) = 2
                         /\ last'.out = <<>>
                         /\ mgr'[m].encoder = mgr[m].encoder
                         /\ ~mgr[m].encoder.fitted => ~mgr'[m].encoder.fitted]_vars

\* The handler is fitted, the strategy is not, after a fit that raised.
C9_Witness ==
    /\ last.op = "fit"
    /\ last.outcome = CollaboratorError
    /\ mgr[last.m].missing_handler.fitted
    /\ ~mgr[last.m].encoder.fitted

\* C10: the encoder of every manager is an instance of the type the manager
\* recorded as encoder_cls.
C10_EncoderIsOfResolvedType ==
    \A m \in Mgrs :
        mgr[m].live => mgr[m].encoder.cls = mgr[m].encoder_cls

====
